---- MODULE Spec2Model ----
(***************************************************************************)
(* A model of bk (src/main.rs): the line wrapper `wrap`, and the reader    *)
(* `Bk` with its four views (Page, Nav, Search, Help) driven by key events.*)
(*                                                                         *)
(* Text is a sequence of UTF-8 bytes, one string per byte.  Every char of  *)
(* the model is one byte long, except the em-dash, which is the three      *)
(* bytes e2 80 94, so that byte offsets and char counts differ as they do  *)
(* in the program.  Offsets are 0-based as in the source; At and Slice     *)
(* translate to TLA+'s 1-based sequences.                                  *)
(***************************************************************************)
EXTENDS Integers, Sequences, FiniteSets, TLC

VARIABLES
    text,            \* wrap's argument `text`
    width,           \* wrap's argument `width`
    wrap_st,         \* wrap's locals: i, start, end, len, word, skip, lines, pc
    chapters,        \* Bk.chapters: each [text, lines, bytes]
    toc,             \* Bk.toc
    rows,            \* Bk.rows
    overflow_checks, \* the build: TRUE panics on usize overflow, FALSE wraps
    bk,              \* Bk's mutable fields, and whether the process panicked
    last,            \* the event handled last and the fields it started from
    entry,           \* the cursor held when the Search view was entered
    save,            \* restore: what reading the save file gave
    arg,             \* restore: the path argument of the command line
    pos              \* restore's result, and main's progress with it

vars ==
    <<text, width, wrap_st, chapters, toc, rows, overflow_checks, bk, last, entry,
      save, arg, pos>>

wrapVars == <<text, width, wrap_st>>
bkVars == <<chapters, toc, rows, overflow_checks, bk, last, entry>>
restoreVars == <<save, arg, pos>>

----------------------------------------------------------------------------
(* Bounds of the model.                                                    *)

MaxLen == 5          \* chars of a text given to wrap in WrapSpec
MaxWidth == 3        \* widths given to wrap in WrapSpec
MaxChapters == 3     \* chapters of a document
Cols == 3            \* terminal columns (terminal::size)
Rows == 2            \* terminal rows (terminal::size)
MaxQuery == 2        \* chars typed into a search query
MaxWalk == 4         \* steps the Nav selection is followed below a wrapped-around index
UsizeBits == 16      \* width of usize in the model (TLC's integers have 32 bits)
MaxSaveLines == 3    \* lines of a save file in RestoreSpec

UsizeMod == 2 ^ UsizeBits
UsizeMax == UsizeMod - 1

----------------------------------------------------------------------------
(* Strings as byte sequences.                                              *)

SP == " "
NL == "\n"
HY == "-"
EM == <<"e2", "80", "94">>     \* the em-dash

\* char::len_utf8 of the char whose first byte is c
len_utf8(c) == IF c = "e2" THEN 3 ELSE 1

IsContinuation(b) == b \in {"80", "94"}

At(s, i) == s[i + 1]

\* str::is_char_boundary
is_char_boundary(s, i) == i = Len(s) \/ (i < Len(s) /\ ~IsContinuation(At(s, i)))

\* whether &s[a..b] is a valid slice (it panics otherwise)
SliceOk(s, a, b) == a <= b /\ b <= Len(s) /\ is_char_boundary(s, a) /\ is_char_boundary(s, b)

Slice(s, a, b) == SubSeq(s, a + 1, b)

\* str::chars().count()
CharCount(s) == Cardinality({k \in 1..Len(s) : ~IsContinuation(s[k])})

RECURSIVE Flatten(_)
Flatten(ss) == IF ss = <<>> THEN <<>> ELSE Head(ss) \o Flatten(Tail(ss))

----------------------------------------------------------------------------
(* wrap                                                                    *)

wrap_init ==
    [i |-> 0, start |-> 0, end |-> 0, len |-> 0, word |-> 0, skip |-> 0,
     lines |-> <<>>, pc |-> "loop"]

\* One iteration of `for (i, c) in text.char_indices()`.
wrap_step(st, t, wd) ==
    LET i == st.i
        c == At(t, i)
        len == st.len + 1
        hyphen == c \in {HY, "e2"}
        end == IF c = SP THEN i
               ELSE IF hyphen /\ ~(len > wd) THEN i + len_utf8(c)
               ELSE st.end
        skip == IF c = SP THEN 1
                ELSE IF hyphen /\ ~(len > wd) THEN 0
                ELSE st.skip
        word == IF c = SP THEN 0
                ELSE IF hyphen THEN (IF len > wd THEN st.word + 1 ELSE 0)
                ELSE st.word + 1
        stop == IF word = len THEN i ELSE end
        seen == [st EXCEPT !.i = i + len_utf8(c), !.end = end, !.skip = skip,
                           !.word = word, !.len = len]
    IN  IF c = NL
        THEN IF SliceOk(t, st.start, i)
             THEN [seen EXCEPT !.lines = Append(st.lines, <<st.start, Slice(t, st.start, i)>>),
                               !.start = i + 1, !.len = 0]
             ELSE [seen EXCEPT !.pc = "panicked"]
        ELSE IF len > wd
        THEN IF SliceOk(t, st.start, stop)
             THEN [seen EXCEPT !.lines = Append(st.lines, <<st.start, Slice(t, st.start, stop)>>),
                               !.start = end + skip, !.len = word]
             ELSE [seen EXCEPT !.pc = "panicked"]
        ELSE seen

\* The end of the loop, were the rest of the text being wrapped, text[start..],
\* pushed as a last line before `lines` is returned.
wrap_return_flushed(st) ==
    [st EXCEPT !.lines = Append(st.lines, <<st.start, Slice(text, st.start, Len(text))>>),
               !.pc = "returned"]

\* The end of the loop: `lines` is returned.
wrap_return(st) == [st EXCEPT !.pc = "returned"]

RECURSIVE wrap_from(_, _, _)
wrap_from(st, t, wd) ==
    IF st.pc # "loop" THEN st
    ELSE IF st.i >= Len(t) THEN wrap_return(st)
    ELSE wrap_from(wrap_step(st, t, wd), t, wd)

wrap(t, wd) == wrap_from(wrap_init, t, wd)

----------------------------------------------------------------------------
(* usize arithmetic: an overflow panics in a build with overflow checks    *)
(* (debug) and wraps in a build without them (release).                    *)

usize_add(a, b) == (a + b) % UsizeMod
add_overflows(a, b) == a + b > UsizeMax
usize_sub(a, b) == (a - b + UsizeMod) % UsizeMod
sub_overflows(a, b) == a < b
saturating_sub(a, b) == IF a > b THEN a - b ELSE 0
min(a, b) == IF a < b THEN a ELSE b

----------------------------------------------------------------------------
(* restore: the position main starts from.  The save file is the sequence  *)
(* of its lines (str::lines), each a sequence of chars.                    *)

DigitChars == <<"0", "1", "2", "3", "4", "5", "6", "7", "8", "9">>

IsDigit(c) == \E d \in 1..Len(DigitChars) : DigitChars[d] = c

DigitValue(c) == (CHOOSE d \in 1..Len(DigitChars) : DigitChars[d] = c) - 1

\* the value of the digits s, read from the left (None once it is past usize::MAX)
RECURSIVE digits_value(_)
digits_value(s) ==
    IF s = <<>> THEN 0
    ELSE LET front == digits_value(SubSeq(s, 1, Len(s) - 1))
         IN  IF front = -1 THEN -1
             ELSE LET v == front * 10 + DigitValue(s[Len(s)])
                  IN  IF v > UsizeMax THEN -1 ELSE v

\* str::parse::<usize>: Ok(n) for a non-empty string of digits whose value fits
parse_usize(s) ==
    IF s = <<>> \/ (\E k \in 1..Len(s) : ~IsDigit(s[k])) \/ digits_value(s) = -1
    THEN [ok |-> FALSE, n |-> 0]
    ELSE [ok |-> TRUE, n |-> digits_value(s)]

\* usize's Display, as format!("{}") writes it
RECURSIVE to_string(_)
to_string(n) ==
    IF n < 10 THEN <<DigitChars[n + 1]>>
    ELSE to_string(n \div 10) \o <<DigitChars[(n % 10) + 1]>>

\* std::fs::read_to_string(save_path): Err(_), or Ok of a file of these lines
NoFile == [ok |-> FALSE, lines |-> <<>>]
File(ls) == [ok |-> TRUE, lines |-> ls]

\* std::env::args().nth(1)
NoPath == [some |-> FALSE, path |-> <<>>]
SomePath(p) == [some |-> TRUE, path |-> p]

\* what restore evaluates to: None, Some(Position(path, chapter, line)), or a panic
NoPosition == [kind |-> "none", path |-> <<>>, chapter |-> 0, line |-> 0]
Position(p, c, l) == [kind |-> "some", path |-> p, chapter |-> c, line |-> l]
RestorePanic == [kind |-> "panic", path |-> <<>>, chapter |-> 0, line |-> 0]

\* main before restore is called, and once Bk::new has copied p's chapter and line
\* into the reader: of `line` only the path is read again (main.rs:482)
NotRestored == [kind |-> "pending", path |-> <<>>, chapter |-> 0, line |-> 0]
Started(p) == [kind |-> "started", path |-> p.path, chapter |-> 0, line |-> 0]
UsageExit == [kind |-> "usage", path |-> <<>>, chapter |-> 0, line |-> 0]

\* the closure get_save: three lines.next().unwrap(), the last two parsed and unwrapped
get_save(ls) ==
    IF Len(ls) < 1 THEN RestorePanic
    ELSE IF Len(ls) < 2 THEN RestorePanic
    ELSE IF ~parse_usize(ls[2]).ok THEN RestorePanic
    ELSE IF Len(ls) < 3 THEN RestorePanic
    ELSE IF ~parse_usize(ls[3]).ok THEN RestorePanic
    ELSE Position(ls[1], parse_usize(ls[2]).n, parse_usize(ls[3]).n)

\* match (save, path)
restore(sv, a) ==
    CASE ~sv.ok /\ ~a.some -> NoPosition
      [] ~sv.ok /\ a.some -> Position(a.path, 0, 0)
      [] sv.ok /\ ~a.some -> get_save(sv.lines)
      [] sv.ok /\ a.some ->
            LET got == get_save(sv.lines)
            IN  IF got.kind = "panic" THEN RestorePanic
                ELSE IF got.path = a.path THEN got
                ELSE Position(a.path, 0, 0)

\* the file main writes when bk.run() returns: format!("{}\n{}\n{}", line.0, chapter, line)
written(p, c, l) == File(<<p, to_string(c), to_string(l)>>)

Book == <<"p">>      \* the path of the document being read

----------------------------------------------------------------------------
(* The documents of the model.                                             *)

max_width == 75      \* main: Bk::new(epub, &line, 75)

\* The chapter texts the loader hands over.
ThreeLines == <<"a", NL, "b", NL, "a", NL>>            \* lines "a", "b", "a"
NoLine == <<"b">>                                      \* text but no line: no newline, no overflow
Wrapped == <<"a">> \o EM \o <<"b", SP, "a", NL>>       \* lines "a-b" (wrapped at the space), "a"
TwoLines == <<"a", NL, "a", NL>>                       \* lines "a", "a"

\* The documents: the chapters of each, in order.
Documents ==
    { <<ThreeLines>>,
      <<TwoLines, ThreeLines>>,
      <<ThreeLines, NoLine, Wrapped>>,
      <<Wrapped, ThreeLines, TwoLines>> }

\* Bk::new: one Chapter per text, the lines and their byte offsets side by side.
Chapter(t, wd) ==
    LET w == wrap(t, wd).lines
    IN  [text |-> t,
         lines |-> [k \in 1..Len(w) |-> w[k][2]],
         bytes |-> [k \in 1..Len(w) |-> w[k][1]]]

Labels == <<"toc0", "toc1", "toc2", "toc3", "toc4", "toc5">>

QueryChars == {"a", "b"}

----------------------------------------------------------------------------
(* Bk                                                                      *)

\* A panic ends the process: nothing of Bk is left.
Panic(b) ==
    [view |-> "None", chapter |-> 0, line |-> 0, jump |-> <<0, 0>>, nav_idx |-> 0,
     nav_top |-> 0, search |-> <<>>, panic |-> TRUE]

\* Bk::lines indexes self.chapters[self.chapter]
lines_ok(b) == b.chapter < Len(chapters)
lines_len(b) == Len(chapters[b.chapter + 1].lines)

jump(b) == [b EXCEPT !.chapter = b.jump[1], !.line = b.jump[2]]

next_chapter(b) ==
    IF sub_overflows(Len(toc), 1) /\ overflow_checks THEN Panic(b)
    ELSE IF b.chapter < usize_sub(Len(toc), 1)
         THEN [b EXCEPT !.chapter = b.chapter + 1, !.line = 0]
         ELSE b

prev_chapter(b) ==
    IF b.chapter > 0
    THEN [b EXCEPT !.chapter = b.chapter - 1, !.line = 0]
    ELSE b

scroll_down(b, n) ==
    IF b.panic THEN b
    ELSE IF add_overflows(b.line, rows) /\ overflow_checks THEN Panic(b)
    ELSE IF ~lines_ok(b) THEN Panic(b)
    ELSE IF usize_add(b.line, rows) < lines_len(b)
         THEN IF add_overflows(b.line, n) /\ overflow_checks THEN Panic(b)
              ELSE [b EXCEPT !.line = usize_add(b.line, n)]
         ELSE next_chapter(b)

scroll_up(b, n) ==
    IF b.line > 0
    THEN [b EXCEPT !.line = saturating_sub(b.line, n)]
    ELSE LET p == prev_chapter(b)
         IN  IF ~lines_ok(p) THEN Panic(p)
             ELSE [p EXCEPT !.line = saturating_sub(lines_len(p), rows)]

----------------------------------------------------------------------------
(* Bk::search                                                              *)

None == -1

\* the byte offsets at which needle occurs in hay
Occurrences(hay, needle) ==
    {k \in 0..(Len(hay) - Len(needle)) : Slice(hay, k, k + Len(needle)) = needle}

\* str::find: the first occurrence
find(hay, needle) ==
    LET occ == Occurrences(hay, needle)
    IN  IF occ = {} THEN None ELSE CHOOSE k \in occ : \A j \in occ : k <= j

\* str::rfind: the last occurrence
rfind(hay, needle) ==
    LET occ == Occurrences(hay, needle)
    IN  IF occ = {} THEN None ELSE CHOOSE k \in occ : \A j \in occ : k >= j

\* slice::binary_search on a sorted slice: Ok(n) where s[n] = x, or else Err(n),
\* n the place where x would be inserted.
binary_search(s, x) ==
    IF \E k \in 1..Len(s) : s[k] = x
    THEN [ok |-> TRUE, n |-> (CHOOSE k \in 1..Len(s) : s[k] = x) - 1]
    ELSE [ok |-> FALSE, n |-> Cardinality({k \in 1..Len(s) : s[k] < x})]

Miss == [kind |-> "miss", chapter |-> 0, line |-> 0]
Crash == [kind |-> "panic", chapter |-> 0, line |-> 0]
Hit(c, l) == [kind |-> "hit", chapter |-> c, line |-> l]

\* A match at byte m of chapter c: `match ...binary_search(..) { Ok(n) => n, Err(n) => n - 1 }`
resolve(c, m) ==
    LET r == binary_search(chapters[c + 1].bytes, m)
    IN  IF r.ok THEN Hit(c, r.n)
        ELSE IF sub_overflows(r.n, 1) /\ overflow_checks THEN Crash
        ELSE Hit(c, usize_sub(r.n, 1))

\* One turn of the Forward loop: chapter c from byte on.
try_forward(b, c, byte) ==
    LET t == chapters[c + 1].text
    IN  IF ~SliceOk(t, byte, Len(t)) THEN Crash
        ELSE LET index == find(Slice(t, byte, Len(t)), b.search)
             IN  IF index = None THEN Miss ELSE resolve(c, byte + index)

\* One turn of the Backward loop: chapter c before byte.
try_backward(b, c, byte) ==
    LET t == chapters[c + 1].text
    IN  IF ~SliceOk(t, 0, byte) THEN Crash
        ELSE LET index == rfind(Slice(t, 0, byte), b.search)
             IN  IF index = None THEN Miss ELSE resolve(c, index)

\* rest = (self.chapter + 1..self.chapters.len() - 1).map(|n| (n, 0)), from c on
RECURSIVE forward_rest(_, _)
forward_rest(b, c) ==
    IF c >= usize_sub(Len(chapters), 1) THEN Miss
    ELSE LET r == try_forward(b, c, 0)
         IN  IF r.kind = "miss" THEN forward_rest(b, c + 1) ELSE r

\* rest = (0..self.chapter - 1).rev().map(|c| (c, self.chapters[c].text.len())),
\* the k chapters below k still to come
RECURSIVE backward_rest(_, _)
backward_rest(b, k) ==
    IF k = 0 THEN Miss
    ELSE IF k - 1 >= Len(chapters) THEN Crash
    ELSE LET r == try_backward(b, k - 1, Len(chapters[k].text))
         IN  IF r.kind = "miss" THEN backward_rest(b, k - 1) ELSE r

\* What the loop of search ends with: a hit (the new cursor), a miss, or a panic.
search_result(b, dir) ==
    IF ~lines_ok(b) THEN Crash
    ELSE IF b.line >= Len(chapters[b.chapter + 1].bytes) THEN Crash
    ELSE LET byte == chapters[b.chapter + 1].bytes[b.line + 1]
         IN  IF dir = "Forward"
             THEN LET r == try_forward(b, b.chapter, byte)
                  IN  IF r.kind = "miss" THEN forward_rest(b, b.chapter + 1) ELSE r
             ELSE IF sub_overflows(b.chapter, 1) /\ overflow_checks THEN Crash
             ELSE LET r == try_backward(b, b.chapter, byte)
                  IN  IF r.kind = "miss"
                      THEN backward_rest(b, usize_sub(b.chapter, 1))
                      ELSE r

\* search, were a miss to leave the cursor where it is (no self.jump())
search_stays(b, dir) ==
    IF b.panic THEN b
    ELSE LET r == search_result(b, dir)
         IN  CASE r.kind = "hit" -> [b EXCEPT !.chapter = r.chapter, !.line = r.line]
               [] r.kind = "miss" -> b
               [] OTHER -> Panic(b)

search(b, dir) ==
    IF b.panic THEN b
    ELSE LET r == search_result(b, dir)
         IN  CASE r.kind = "hit" -> [b EXCEPT !.chapter = r.chapter, !.line = r.line]
               [] r.kind = "miss" -> jump(b)
               [] OTHER -> Panic(b)

----------------------------------------------------------------------------
(* View::render: whether it panics, and how many lines it returns.         *)

HelpLines == 20      \* the lines of Help::render's text

Rendered(n) == [panic |-> FALSE, n |-> n]
RenderCrash == [panic |-> TRUE, n |-> 0]

\* &v[a..end], a vector of len elements
render_slice(a, end, len) ==
    IF a <= end /\ end <= len THEN Rendered(end - a) ELSE RenderCrash

Help_render(b) == Rendered(HelpLines)

Nav_render(b) ==
    IF add_overflows(b.nav_top, rows) /\ overflow_checks THEN RenderCrash
    ELSE render_slice(b.nav_top, min(usize_add(b.nav_top, rows), Len(toc)), Len(toc))

Page_render(b) ==
    IF add_overflows(b.line, rows) /\ overflow_checks THEN RenderCrash
    ELSE IF ~lines_ok(b) THEN RenderCrash
    ELSE render_slice(b.line, min(usize_add(b.line, rows), lines_len(b)), lines_len(b))

Search_render(b) ==
    IF add_overflows(b.line, rows) /\ overflow_checks THEN RenderCrash
    ELSE IF sub_overflows(usize_add(b.line, rows), 1) /\ overflow_checks THEN RenderCrash
    ELSE IF ~lines_ok(b) THEN RenderCrash
    ELSE LET end == min(usize_sub(usize_add(b.line, rows), 1), lines_len(b))
             buf == render_slice(b.line, end, lines_len(b))
         IN  IF buf.panic THEN RenderCrash
             ELSE IF sub_overflows(rows, 1) /\ overflow_checks THEN RenderCrash
             ELSE LET fill == usize_sub(rows, 1)
                  IN  Rendered((IF buf.n < fill THEN fill ELSE buf.n) + 1)

render(b) ==
    CASE b.view = "Help" -> Help_render(b)
      [] b.view = "Nav" -> Nav_render(b)
      [] b.view = "Page" -> Page_render(b)
      [] b.view = "Search" -> Search_render(b)

----------------------------------------------------------------------------
(* View::run, one operator per match arm.                                  *)

Help_run(b) == [b EXCEPT !.view = "Page"]

Nav_cancel(b) == [b EXCEPT !.view = "Page"]

\* Enter, were it to move the cursor without saving the one it leaves
Nav_commit_unsaved(b) == [b EXCEPT !.chapter = b.nav_idx, !.line = 0, !.view = "Page"]

Nav_commit(b) ==
    [b EXCEPT !.jump = <<b.chapter, b.line>>, !.chapter = b.nav_idx, !.line = 0,
              !.view = "Page"]

Nav_down(b) ==
    IF sub_overflows(Len(toc), 1) /\ overflow_checks THEN Panic(b)
    ELSE IF b.nav_idx < usize_sub(Len(toc), 1)
         THEN LET idx == b.nav_idx + 1
              IN  IF add_overflows(b.nav_top, rows) /\ overflow_checks THEN Panic(b)
                  ELSE [b EXCEPT !.nav_idx = idx,
                                 !.nav_top = IF idx = usize_add(b.nav_top, rows)
                                             THEN b.nav_top + 1 ELSE b.nav_top]
         ELSE b

Nav_up(b) ==
    IF b.nav_idx > 0
    THEN [b EXCEPT !.nav_top = IF b.nav_idx = b.nav_top THEN b.nav_top - 1 ELSE b.nav_top,
                   !.nav_idx = b.nav_idx - 1]
    ELSE b

Nav_home(b) == [b EXCEPT !.nav_idx = 0, !.nav_top = 0]

Nav_end(b) ==
    IF sub_overflows(Len(toc), 1) /\ overflow_checks THEN Panic(b)
    ELSE [b EXCEPT !.nav_idx = usize_sub(Len(toc), 1),
                   !.nav_top = saturating_sub(Len(toc), rows)]

Page_quit(b) == [b EXCEPT !.view = "None"]

Page_tab(b) ==
    IF sub_overflows(rows, 1) /\ overflow_checks THEN Panic(b)
    ELSE [b EXCEPT !.nav_idx = b.chapter,
                   !.nav_top = saturating_sub(b.chapter, usize_sub(rows, 1)),
                   !.view = "Nav"]

Page_help(b) == [b EXCEPT !.view = "Help"]

Page_slash(b) ==
    [b EXCEPT !.search = <<>>, !.jump = <<b.chapter, b.line>>, !.view = "Search"]

\* the apostrophe, were it a one-way jump that forgets the position it leaves
Page_apostrophe_oneway(b) == jump(b)

Page_apostrophe(b) ==
    LET saved == <<b.chapter, b.line>>
    IN  [jump(b) EXCEPT !.jump = saved]

Page_N(b) == search(b, "Backward")

Page_n(b) == search(scroll_down(b, 1), "Forward")

Page_end(b) ==
    IF ~lines_ok(b) THEN Panic(b)
    ELSE [b EXCEPT !.line = saturating_sub(lines_len(b), rows)]

Page_home(b) == [b EXCEPT !.line = 0]

Page_d(b) == scroll_down(b, rows \div 2)

Page_u(b) == scroll_up(b, rows \div 2)

Page_up(b) == scroll_up(b, 1)

Page_pageup(b) == scroll_up(b, rows)

Page_down(b) == scroll_down(b, 1)

Page_pagedown(b) == scroll_down(b, rows)

Page_prev(b) == prev_chapter(b)

Page_next(b) == next_chapter(b)

\* Escape, were it to leave the Search view without bk.jump()
Search_esc_stays(b) == [b EXCEPT !.view = "Page"]

Search_esc(b) == [jump(b) EXCEPT !.view = "Page"]

Search_enter(b) == [b EXCEPT !.view = "Page"]

\* String::pop removes the last char (nothing of an empty string)
pop(q) ==
    IF q = <<>> THEN q
    ELSE LET cut == CHOOSE k \in 0..(Len(q) - 1) :
                        /\ is_char_boundary(q, k)
                        /\ \A j \in (k + 1)..(Len(q) - 1) : ~is_char_boundary(q, j)
         IN  Slice(q, 0, cut)

Search_backspace(b) == search(jump([b EXCEPT !.search = pop(b.search)]), "Forward")

Search_char(b, c) == search([b EXCEPT !.search = Append(b.search, c)], "Forward")

----------------------------------------------------------------------------
(* Bk::run: one turn of the loop renders the view, reads an event and      *)
(* hands a key to the view's run.                                          *)

NoEntry == <<>>

Running == bk.view # "None" /\ ~bk.panic

\* The event `key` arrives in view `v` and leaves the fields as nb.
Event(v, key, nb) ==
    /\ Running
    /\ bk.view = v
    /\ ~render(bk).panic
    /\ bk' = nb
    /\ last' = [key |-> key, view |-> v, chapter |-> bk.chapter, line |-> bk.line]
    /\ entry' = IF nb.view = "Search" /\ v = "Page" THEN <<bk.chapter, bk.line>>
                ELSE IF v = "Search" THEN entry
                ELSE NoEntry
    /\ UNCHANGED <<chapters, toc, rows, overflow_checks>>
    /\ UNCHANGED wrapVars
    /\ UNCHANGED restoreVars

\* view.render(self) panics
RenderPanic ==
    /\ Running
    /\ render(bk).panic
    /\ bk' = Panic(bk)
    /\ last' = [last EXCEPT !.key = "render"]
    /\ UNCHANGED <<chapters, toc, rows, overflow_checks, entry>>
    /\ UNCHANGED wrapVars
    /\ UNCHANGED restoreVars

\* Event::Resize, Event::Mouse, and the keys a view's `_ => ()` arm takes
Ignored == \E v \in {"Page", "Nav", "Search"} : Event(v, "ignored", bk)

HelpKey == Event("Help", "any", Help_run(bk))

NavCancel == Event("Nav", "Esc", Nav_cancel(bk))
NavCommit == Event("Nav", "Enter", Nav_commit(bk))
NavDown == Event("Nav", "Down", Nav_down(bk))
\* (the selection, once wrapped around to usize::MAX, is followed MaxWalk steps down)
NavUp ==
    /\ bk.nav_idx <= Len(toc) + 1 \/ bk.nav_idx > UsizeMax - MaxWalk
    /\ Event("Nav", "Up", Nav_up(bk))
NavHome == Event("Nav", "Home", Nav_home(bk))
NavEnd == Event("Nav", "End", Nav_end(bk))

PageQuit == Event("Page", "q", Page_quit(bk))
PageTab == Event("Page", "Tab", Page_tab(bk))
PageHelp == Event("Page", "?", Page_help(bk))
PageSlash == Event("Page", "/", Page_slash(bk))
PageApostrophe == Event("Page", "'", Page_apostrophe(bk))
PageSearchBackward == Event("Page", "N", Page_N(bk))
PageSearchForward == Event("Page", "n", Page_n(bk))
PageEnd == Event("Page", "End", Page_end(bk))
PageHome == Event("Page", "Home", Page_home(bk))
PageHalfDown == Event("Page", "d", Page_d(bk))
PageHalfUp == Event("Page", "u", Page_u(bk))
PageUp == Event("Page", "Up", Page_up(bk))
PagePageUp == Event("Page", "PageUp", Page_pageup(bk))
PageDown == Event("Page", "Down", Page_down(bk))
PagePageDown == Event("Page", "PageDown", Page_pagedown(bk))
PagePrev == Event("Page", "[", Page_prev(bk))
PageNext == Event("Page", "]", Page_next(bk))

SearchEsc == Event("Search", "Esc", Search_esc(bk))
SearchEnter == Event("Search", "Enter", Search_enter(bk))
SearchBackspace == Event("Search", "Backspace", Search_backspace(bk))
SearchChar ==
    \E c \in QueryChars :
        /\ Len(bk.search) < MaxQuery
        /\ Event("Search", "Char", Search_char(bk, c))

IsStrictlyIncreasing(s) == \A k \in 1..(Len(s) - 1) : s[k] < s[k + 1]

\* The state Bk::new builds: the document wrapped at min(cols, max_width), the
\* cursor at the position restore() gives from the file an earlier run of main
\* wrote for the same path (restore has returned; its inputs are not kept).  Every
\* chapter of Documents wraps without a panic and to sorted offsets, which is what
\* binary_search is defined on; toc has any number of labels up to one more than
\* there are chapters.
Init ==
    /\ text = <<>>
    /\ width = min(Cols, max_width)
    /\ wrap_st = wrap_init
    /\ \E doc \in Documents :
         /\ Len(doc) <= MaxChapters
         /\ \A k \in 1..Len(doc) : wrap(doc[k], width).pc = "returned"
         /\ chapters = [k \in 1..Len(doc) |-> Chapter(doc[k], width)]
         /\ \E m \in 0..(Len(doc) + 1) : toc = SubSeq(Labels, 1, m)
    /\ \A k \in 1..Len(chapters) : IsStrictlyIncreasing(chapters[k].bytes)
    /\ rows = Rows
    /\ overflow_checks \in BOOLEAN
    /\ \E c \in 0..(Len(chapters) - 1) :
         \E l \in 0..saturating_sub(Len(chapters[c + 1].lines), 1) :
            /\ restore(written(Book, c, l), SomePath(Book)) = Position(Book, c, l)
            /\ pos = Started(Position(Book, c, l))
            /\ bk = [view |-> "Page", chapter |-> c, line |-> l, jump |-> <<0, 0>>,
                     nav_idx |-> 0, nav_top |-> 0, search |-> <<>>, panic |-> FALSE]
            /\ last = [key |-> "start", view |-> "Page", chapter |-> c, line |-> l]
    /\ entry = NoEntry
    /\ save = NoFile     \* restore's locals are gone when it has returned
    /\ arg = NoPath

Next ==
    \/ RenderPanic
    \/ Ignored
    \/ HelpKey
    \/ NavCancel
    \/ NavCommit
    \/ NavDown
    \/ NavUp
    \/ NavHome
    \/ NavEnd
    \/ PageQuit
    \/ PageTab
    \/ PageHelp
    \/ PageSlash
    \/ PageApostrophe
    \/ PageSearchBackward
    \/ PageSearchForward
    \/ PageEnd
    \/ PageHome
    \/ PageHalfDown
    \/ PageHalfUp
    \/ PageUp
    \/ PagePageUp
    \/ PageDown
    \/ PagePageDown
    \/ PagePrev
    \/ PageNext
    \/ SearchEsc
    \/ SearchEnter
    \/ SearchBackspace
    \/ SearchChar

Spec == Init /\ [][Next]_vars

----------------------------------------------------------------------------
(* wrap on its own: every text of at most MaxLen chars, every width of at  *)
(* most MaxWidth, one action per iteration of the loop.                    *)

WrapChars == {<<"a">>, <<SP>>, <<HY>>, EM, <<NL>>}

WrapTexts == UNION {[1..n -> WrapChars] : n \in 0..MaxLen}

\* the text and the width of the worked example: wrap("hello world", 5)
HelloWorld ==
    [text |-> <<"h", "e", "l", "l", "o", SP, "w", "o", "r", "l", "d">>, width |-> 5]

WrapInit ==
    /\ \/ /\ \E cs \in WrapTexts : text = Flatten(cs)
          /\ width \in 1..MaxWidth
       \/ /\ text = HelloWorld.text
          /\ width = HelloWorld.width
    /\ wrap_st = wrap_init
    /\ chapters = <<>>
    /\ toc = <<>>
    /\ rows = 1
    /\ overflow_checks = TRUE
    /\ bk = [view |-> "None", chapter |-> 0, line |-> 0, jump |-> <<0, 0>>,
             nav_idx |-> 0, nav_top |-> 0, search |-> <<>>, panic |-> FALSE]
    /\ last = [key |-> "start", view |-> "None", chapter |-> 0, line |-> 0]
    /\ entry = NoEntry
    /\ save = NoFile
    /\ arg = NoPath
    /\ pos = NotRestored

\* one iteration of the loop
WrapChar ==
    /\ wrap_st.pc = "loop"
    /\ wrap_st.i < Len(text)
    /\ wrap_st' = wrap_step(wrap_st, text, width)
    /\ UNCHANGED <<text, width>>
    /\ UNCHANGED bkVars
    /\ UNCHANGED restoreVars

\* the loop is over
WrapReturn ==
    /\ wrap_st.pc = "loop"
    /\ wrap_st.i >= Len(text)
    /\ wrap_st' = wrap_return(wrap_st)
    /\ UNCHANGED <<text, width>>
    /\ UNCHANGED bkVars
    /\ UNCHANGED restoreVars

WrapNext == WrapChar \/ WrapReturn

WrapSpec == WrapInit /\ [][WrapNext]_vars

----------------------------------------------------------------------------
(* main's start on its own: every save file of at most MaxSaveLines lines, *)
(* with and without a path argument.                                       *)

Other == <<"q">>     \* the path of another document

\* the lines a save file is made of: paths, numbers, a word, an empty line
SaveLines == {Book, Other, <<"0">>, <<"1">>, <<"x">>, <<>>}

Saves == {NoFile} \cup {File(ls) : ls \in UNION {[1..n -> SaveLines] : n \in 0..MaxSaveLines}}

Args == {NoPath, SomePath(Book), SomePath(Other)}

RestoreInit ==
    /\ save \in Saves
    /\ arg \in Args
    /\ pos = NotRestored
    /\ text = <<>>
    /\ width = min(Cols, max_width)
    /\ wrap_st = wrap_init
    /\ chapters = <<Chapter(ThreeLines, width)>>
    /\ toc = SubSeq(Labels, 1, 1)
    /\ rows = Rows
    /\ overflow_checks = TRUE
    /\ bk = [view |-> "None", chapter |-> 0, line |-> 0, jump |-> <<0, 0>>,
             nav_idx |-> 0, nav_top |-> 0, search |-> <<>>, panic |-> FALSE]
    /\ last = [key |-> "start", view |-> "None", chapter |-> 0, line |-> 0]
    /\ entry = NoEntry

\* let line = restore()
Restore ==
    /\ pos.kind = "pending"
    /\ pos' = restore(save, arg)
    /\ bk' = IF restore(save, arg).kind = "panic" THEN Panic(bk) ELSE bk
    /\ UNCHANGED <<save, arg, chapters, toc, rows, overflow_checks, last, entry>>
    /\ UNCHANGED wrapVars

\* .unwrap_or_else(|| { println!("usage: bk path"); std::process::exit(1) })
Usage ==
    /\ pos.kind = "none"
    /\ pos' = UsageExit
    /\ UNCHANGED <<save, arg>>
    /\ UNCHANGED bkVars
    /\ UNCHANGED wrapVars

\* Bk::new(epub, &line, 75): the reader starts at chapter line.1, line line.2
New ==
    /\ pos.kind = "some"
    /\ pos' = Started(pos)
    /\ bk' = [bk EXCEPT !.view = "Page", !.chapter = pos.chapter, !.line = pos.line]
    /\ last' = [last EXCEPT !.view = "Page", !.chapter = pos.chapter, !.line = pos.line]
    /\ UNCHANGED <<save, arg, chapters, toc, rows, overflow_checks, entry>>
    /\ UNCHANGED wrapVars

RestoreNext == Restore \/ Usage \/ New

RestoreSpec == RestoreInit /\ [][RestoreNext]_vars

----------------------------------------------------------------------------
(* The claims.                                                             *)

Cursor == <<bk.chapter, bk.line>>
LastCursor == <<last.chapter, last.line>>

\* The event handled last was `key`, arriving in view v, and its handler returned.
Handled(v, key) == last.view = v /\ last.key = key /\ ~bk.panic

\* chapter is an index into chapters, line at most the number of its lines
CursorValid(c, l) == c < Len(chapters) /\ l <= Len(chapters[c + 1].lines)

\* a document of the spec's data model: no more labels than chapters
SpecDocument == Len(toc) <= Len(chapters)

\* chapter c has the query q somewhere in its text
Contains(c, q) == Occurrences(chapters[c + 1].text, q) # {}

\* line l of chapter c is the line whose span holds byte m
SpanHolds(c, l, m) ==
    LET bytes == chapters[c + 1].bytes
    IN  /\ l < Len(bytes)
        /\ bytes[l + 1] <= m
        /\ (l + 1 = Len(bytes) \/ m < bytes[l + 2])

\* the fields the last event started from, with the query as it is now
Before == [bk EXCEPT !.chapter = last.chapter, !.line = last.line]

\* the offsets of the pairs wrap has pushed
Offsets == [k \in 1..Len(wrap_st.lines) |-> wrap_st.lines[k][1]]

(* C1: after any sequence of key events, in a document the spec allows,    *)
(* cursor.chapter is an index into chapters and cursor.line is at most the *)
(* number of lines of that chapter.                                        *)
C1_CursorValid ==
    (SpecDocument /\ ~bk.panic) => CursorValid(bk.chapter, bk.line)

(* C2: the offsets wrap returns are strictly increasing, and the first     *)
(* one is 0.                                                               *)
C2_OffsetsIncreasing ==
    wrap_st.pc = "returned" =>
        /\ IsStrictlyIncreasing(Offsets)
        /\ (Len(Offsets) > 0 => Offsets[1] = 0)

(* C3: in a document of at least 2 chapters, a forward search (a char      *)
(* typed in the Search view) for a non-empty query that occurs only in a   *)
(* chapter c after the cursor's moves the cursor to chapter c, to the line *)
(* that holds the first occurrence.                                        *)
C3_ForwardReachesLaterChapter ==
    (Handled("Search", "Char") /\ Len(chapters) >= 2 /\ bk.search # <<>>) =>
        \A c \in (last.chapter + 1)..(Len(chapters) - 1) :
            (/\ Contains(c, bk.search)
             /\ \A d \in 0..(Len(chapters) - 1) : d # c => ~Contains(d, bk.search))
            => /\ bk.chapter = c
               /\ SpanHolds(c, bk.line, find(chapters[c + 1].text, bk.search))

\* the last chapter before chapter c0 that has the query q, or None
NearestBefore(c0, q) ==
    LET having == {d \in 0..(c0 - 1) : Contains(d, q)}
    IN  IF having = {} THEN None ELSE CHOOSE d \in having : \A e \in having : e <= d

(* C4: a backward search (N in the Page view) with no match before the     *)
(* cursor's line in its chapter goes through the chapters before it, from  *)
(* chapter - 1 down to 0, and moves the cursor to the line of the last     *)
(* occurrence in the nearest of them that has the query.                   *)
C4_BackwardReachesNearestChapter ==
    (/\ Handled("Page", "N")
     /\ CursorValid(last.chapter, last.line)
     /\ last.line < Len(chapters[last.chapter + 1].bytes)
     /\ try_backward(Before, last.chapter,
                     chapters[last.chapter + 1].bytes[last.line + 1]).kind = "miss"
     /\ NearestBefore(last.chapter, bk.search) # None)
    => LET c == NearestBefore(last.chapter, bk.search)
       IN  /\ bk.chapter = c
           /\ SpanHolds(c, bk.line, rfind(chapters[c + 1].text, bk.search))

\* the char typed last in the Search view found no match
CharMissed == Handled("Search", "Char") /\ search_result(Before, "Forward").kind = "miss"

(* C5, as stated: in the Search view, when the char appended to the query  *)
(* yields no match, the cursor after the key is the cursor before it.      *)
C5_MissKeepsCursor == CharMissed => Cursor = LastCursor

(* C5, amended: in the Search view, when the char appended to the query    *)
(* yields no match, the cursor after the key is the saved jump, the cursor *)
(* held when the Search view was entered.                                  *)
C5_MissRestoresJump == CharMissed => (Cursor = bk.jump /\ bk.jump = entry)

C5_Witness == CharMissed /\ LastCursor # bk.jump /\ Cursor = bk.jump

(* C6: the Search view entered from the Page view with cursor p: the saved *)
(* jump is p as long as the view is Search, and after Escape, whatever     *)
(* chars and backspaces came before, the view is Page and the cursor is p. *)
C6_EscapeRestoresEntry ==
    /\ (bk.view = "Search" /\ ~bk.panic) => (entry # NoEntry /\ bk.jump = entry)
    /\ Handled("Page", "/") => (bk.view = "Search" /\ entry = LastCursor /\ bk.search = <<>>)
    /\ Handled("Search", "Esc") => (bk.view = "Page" /\ Cursor = entry /\ bk.jump = entry)

C6_Witness ==
    /\ Handled("Search", "Esc")
    /\ bk.search # <<>>
    /\ LastCursor # entry
    /\ Cursor = entry

(* C7: in the Page view the apostrophe swaps the cursor and the saved      *)
(* jump, so two in a row restore both.                                     *)
C7_ApostropheSwaps ==
    /\ Handled("Page", "'") => (bk.jump = LastCursor /\ bk.view = "Page")
    /\ (bk.view = "Page" /\ ~bk.panic) =>
           LET once == Page_apostrophe(bk)
           IN  /\ <<once.chapter, once.line>> = bk.jump
               /\ once.jump = Cursor
               /\ Page_apostrophe(once) = bk

C7_Witness == Handled("Page", "'") /\ Cursor # bk.jump /\ bk.jump = LastCursor

(* C8: whatever the number of toc labels, a scroll down (line, half page,  *)
(* page) from the last chapter never fails and never takes the cursor's    *)
(* chapter past the last chapter.                                          *)
C8_ScrollDownStaysInLastChapter ==
    (/\ last.view = "Page"
     /\ last.key \in {"Down", "d", "PageDown"}
     /\ last.chapter = Len(chapters) - 1)
    => (~bk.panic /\ bk.chapter <= Len(chapters) - 1)

(* C9: a scroll up (line, half page, page) at line 0 moves to the chapter  *)
(* before, to line max(0, its lines - rows); in the first chapter it       *)
(* leaves chapter and line as they are.                                    *)
C9_ScrollUpAtTop ==
    (/\ last.view = "Page"
     /\ last.key \in {"Up", "u", "PageUp"}
     /\ ~bk.panic
     /\ CursorValid(last.chapter, last.line)
     /\ last.line = 0)
    => IF last.chapter = 0
       THEN Cursor = LastCursor
       ELSE Cursor = <<last.chapter - 1,
                       saturating_sub(Len(chapters[last.chapter].lines), rows)>>

(* C10: no line wrap returns has more than width chars.                    *)
C10_LinesFitWidth ==
    wrap_st.pc = "returned" =>
        \A k \in 1..Len(wrap_st.lines) : CharCount(wrap_st.lines[k][2]) <= width

(* C11: wrap is total: for every text and every width of at least 1 the    *)
(* loop ends and wrap returns, never failing on a slice text[start..end]   *)
(* that is out of range or has start after end.                            *)
C11_WrapTotal == wrap_st.pc # "panicked"

\* the key handled last was one whose handler is a call of search: N in the Page
\* view (Backward), a char typed in the Search view (Forward)
SearchKey ==
    \/ last.view = "Page" /\ last.key = "N"
    \/ last.view = "Search" /\ last.key = "Char"

(* C12: search is total: in a document the spec allows, from a cursor that *)
(* satisfies the cursor invariant (chapter 0 and chapters of zero lines    *)
(* included), in both directions, search ends without a runtime failure,   *)
(* at a cursor that satisfies the invariant.                               *)
C12_SearchTotal ==
    (SearchKey /\ SpecDocument /\ CursorValid(last.chapter, last.line))
    => (~bk.panic /\ CursorValid(bk.chapter, bk.line))

\* the Nav view is up, over a toc that has labels
InContents == bk.view = "Nav" /\ ~bk.panic /\ SpecDocument /\ Len(toc) > 0

\* the rows nav_top moves by from b to nb
TopMoves(b, nb) ==
    IF nb.nav_top >= b.nav_top THEN nb.nav_top - b.nav_top ELSE b.nav_top - nb.nav_top

(* C13: in the Nav view, from Tab on and after any Up, Down, Home and End, *)
(* the selection nav_idx is an index into toc and lies in the window       *)
(* (nav_top <= nav_idx < nav_top + rows), and one Up or one Down moves     *)
(* nav_top by at most one row.                                             *)
C13_SelectionInWindow ==
    InContents =>
        /\ bk.nav_idx <= Len(toc) - 1
        /\ bk.nav_top <= bk.nav_idx
        /\ bk.nav_idx < bk.nav_top + rows
        /\ \A nb \in {Nav_up(bk), Nav_down(bk)} : ~nb.panic => TopMoves(bk, nb) <= 1

\* nb has the cursor and the saved jump of b
SamePlace(b, nb) == nb.chapter = b.chapter /\ nb.line = b.line /\ nb.jump = b.jump

(* C14: in the Nav view, Enter saves the cursor in jump, moves the cursor  *)
(* to (nav_idx, 0) and goes back to the Page view; Escape goes back to the *)
(* Page view with cursor and jump as they were; no other key of the Nav    *)
(* view changes the cursor or jump, so the cursor Enter saves is the one   *)
(* held when the view was entered.                                         *)
C14_CommitAndCancel ==
    /\ Handled("Nav", "Enter") => (bk.view = "Page" /\ bk.jump = LastCursor /\ bk.line = 0)
    /\ Handled("Nav", "Esc") => (bk.view = "Page" /\ Cursor = LastCursor)
    /\ (last.view = "Nav" /\ last.key \in {"Up", "Down", "Home", "End", "ignored"} /\ ~bk.panic)
       => (bk.view = "Nav" /\ Cursor = LastCursor)
    /\ (bk.view = "Nav" /\ ~bk.panic) =>
           /\ LET c == Nav_commit(bk)
              IN  /\ <<c.chapter, c.line>> = <<bk.nav_idx, 0>>
                  /\ c.jump = Cursor
                  /\ c.view = "Page"
           /\ Nav_cancel(bk).view = "Page"
           /\ SamePlace(bk, Nav_cancel(bk))
           /\ \A nb \in {Nav_up(bk), Nav_down(bk), Nav_home(bk), Nav_end(bk)} :
                  ~nb.panic => (SamePlace(bk, nb) /\ nb.view = "Nav")

C14_Witness ==
    /\ Handled("Nav", "Enter")
    /\ Cursor # LastCursor
    /\ bk.jump = LastCursor
    /\ bk.jump # <<0, 0>>

\* the direction of the search the key handled last called
SearchDir == IF last.key = "N" THEN "Backward" ELSE "Forward"

\* the byte at which the match starts that search, called on b towards dir, finds
\* in chapter c: in b's own chapter the match from (or before) the byte of b's line,
\* in another chapter the first (or last) of the whole text
MatchByte(b, dir, c) ==
    LET t == chapters[c + 1].text
        byte == IF c = b.chapter THEN chapters[c + 1].bytes[b.line + 1]
                ELSE IF dir = "Forward" THEN 0 ELSE Len(t)
    IN  IF dir = "Forward"
        THEN byte + find(Slice(t, byte, Len(t)), b.search)
        ELSE rfind(Slice(t, 0, byte), b.search)

\* the search called by the key handled last ended on a match
SearchHit == SearchKey /\ ~bk.panic /\ search_result(Before, SearchDir).kind = "hit"

(* C15: when a search ends on a match that starts at byte m of chapter c,  *)
(* the cursor's line i is the line whose span holds m: offsets[i] <= m and *)
(* i is the last line or m < offsets[i+1]; an m that is an offset of the   *)
(* chapter gives the line of that offset.                                  *)
C15_MatchResolvesToItsLine ==
    SearchHit =>
        LET m == MatchByte(Before, SearchDir, bk.chapter)
            bytes == chapters[bk.chapter + 1].bytes
        IN  /\ SpanHolds(bk.chapter, bk.line, m)
            /\ \A i \in 0..(Len(bytes) - 1) : bytes[i + 1] = m => bk.line = i

\* wrap has returned from the worked example
HelloReturned ==
    text = HelloWorld.text /\ width = HelloWorld.width /\ wrap_st.pc = "returned"

(* C16, as stated: wrap("hello world", 5) returns exactly two pairs, the   *)
(* lines "hello" and "world" with the offsets 0 and 6.                     *)
C16_HelloWorldTwoLines ==
    HelloReturned =>
        wrap_st.lines = <<<<0, Slice(HelloWorld.text, 0, 5)>>, <<6, Slice(HelloWorld.text, 6, 11)>>>>

(* C16, amended: wrap("hello world", 5) returns exactly one pair, the line *)
(* "hello" with the offset 0; the rest, "world", which starts at byte 6,   *)
(* is not returned, there being no newline and no overflow after it.       *)
C16_HelloWorldOneLine ==
    HelloReturned =>
        /\ wrap_st.lines = <<<<0, Slice(HelloWorld.text, 0, 5)>>>>
        /\ wrap_st.start = 6

C16_Witness == HelloReturned /\ Len(wrap_st.lines) = 1

\* the text being wrapped has no newline and at most width chars
FitsOneLine == (\A k \in 1..Len(text) : text[k] # NL) /\ CharCount(text) <= width

\* the char the loop of wrap is about to take is a newline or makes len exceed width
AtBreak ==
    /\ wrap_st.pc = "loop"
    /\ wrap_st.i < Len(text)
    /\ (At(text, wrap_st.i) = NL \/ wrap_st.len + 1 > width)

(* C17: wrap pushes a line only at a newline or when a char makes the line *)
(* longer than width, one line at a time, and none when the input ends: a  *)
(* text with no newline and at most width chars yields no line at all.     *)
C17_NoTrailingFlush ==
    /\ [](wrap_st.pc = "returned" /\ FitsOneLine => wrap_st.lines = <<>>)
    /\ [][/\ Len(wrap_st'.lines) /= Len(wrap_st.lines)
             => (AtBreak /\ Len(wrap_st'.lines) = Len(wrap_st.lines) + 1)
          /\ wrap_st'.pc = "returned" => wrap_st'.lines = wrap_st.lines]_vars

C17_Witness ==
    /\ wrap_st.pc = "returned"
    /\ FitsOneLine
    /\ CharCount(text) = width
    /\ width > 1
    /\ wrap_st.lines = <<>>

(* C18: in every view (Page, Nav, Search, Help) and every reachable state, *)
(* render, when it returns, returns at most rows lines.                    *)
C18_RenderFitsRows ==
    (Running /\ ~render(bk).panic) => render(bk).n <= rows

\* the save file is there, but is no record of three lines with two numbers
Corrupt ==
    /\ save.ok
    /\ \/ Len(save.lines) < 3
       \/ ~parse_usize(save.lines[2]).ok
       \/ ~parse_usize(save.lines[3]).ok

(* C19: main started with a path while the save file is missing or corrupt *)
(* (fewer than three lines, or a chapter or line that is no number):       *)
(* restore does not fail and gives the position (path, 0, 0), and the      *)
(* reader Bk::new builds has the cursor (0, 0).                            *)
C19_CorruptSaveIsNoSave ==
    (arg.some /\ (~save.ok \/ Corrupt) /\ pos.kind # "pending") =>
        /\ pos.kind \in {"some", "started"}
        /\ pos.path = arg.path
        /\ pos.kind = "some" => <<pos.chapter, pos.line>> = <<0, 0>>
        /\ pos.kind = "started" => (bk.view = "Page" /\ Cursor = <<0, 0>>)

\* the byte at which the line after the last cursor's line starts
NextLineByte == chapters[last.chapter + 1].bytes[last.line + 2]

\* the first occurrence of the query in the last cursor's chapter at or after the
\* start of the line after the cursor's, or None
NextOccurrence ==
    LET t == chapters[last.chapter + 1].text
        index == find(Slice(t, NextLineByte, Len(t)), bk.search)
    IN  IF index = None THEN None ELSE NextLineByte + index

(* C20: n in the Page view of a document with one label per chapter, the   *)
(* query not empty and occurring in the cursor's chapter at or after the   *)
(* start of line cursor.line + 1: the cursor stays in that chapter and     *)
(* moves to the line that holds the first such occurrence, whatever        *)
(* cursor.line + rows is against the number of lines of the chapter.       *)
C20_NextFindsInChapter ==
    (/\ last.view = "Page"
     /\ last.key = "n"
     /\ bk.search # <<>>
     /\ Len(toc) = Len(chapters)
     /\ CursorValid(last.chapter, last.line)
     /\ last.line + 1 < Len(chapters[last.chapter + 1].bytes)
     /\ NextOccurrence # None)
    => /\ ~bk.panic
       /\ bk.chapter = last.chapter
       /\ SpanHolds(last.chapter, bk.line, NextOccurrence)

====
